---------------------------- MODULE Spec2Model ----------------------------
(***************************************************************************)
(* The fragment staging engine of the apparmor_profile module              *)
(* (plugins/modules/apparmor_profile.py).  The state is the staging tree   *)
(* on the local filesystem together with the position of every running    *)
(* invocation of run_module.  Every filesystem call of the module is one   *)
(* atomic step, so that invocations interleave between system calls.       *)
(***************************************************************************)
EXTENDS Integers, Sequences, FiniteSets, TLC

\* ------------------------------------------------------------------ bounds
\* The number of temporary files one staging directory can hold: mkstemp
\* fails when it cannot create another name.
MaxTmp == 2

\* ------------------------------------------------------- program constants
\* 0o600: the permission bits of a file created by tempfile.mkstemp.
TempPerm == 384
\* 0o644: os.chmod(fragment_path, 0o644).
FragmentPerm == 420

\* staging_base_dir default.
BaseDir == "/etc/apparmor.d/roles"

Procs == {"p1", "p2"}
\* The single external caller of the sequential specification.
Caller == "p1"

Targets == {"t1"}
Roles == {"c1", "c2"}
Modes == {"enforce", "complain", "disable"}
States == {"present", "absent"}
Contents == {<<"X">>, <<"Y">>}
Pairs == Targets \X Roles
\* A target no invocation of the model names: what lies under it is only
\* ever looked at.
OtherTargets == {"t2"}
AllPairs == (Targets \cup OtherTargets) \X Roles

\* ---------------------------------------------------------------- helpers
\* f"# Mode: {mode}\n{fragment_content}"
content_with_mode(mode, fragment_content) ==
    <<"# Mode: ", mode, "\n">> \o fragment_content

\* os.path.join(staging_base_dir, profile_name)
staging_dir(a) == <<BaseDir, a.name>>

\* os.path.join(staging_dir, f"{role_name}.fragment")
fragment_path(a) == staging_dir(a) \o <<a.role_name, ".fragment">>

pair(a) == <<a.name, a.role_name>>

NoFile == [exists |-> FALSE, content |-> <<>>, perm |-> 0]
File(c, m) == [exists |-> TRUE, content |-> c, perm |-> m]

NoPath == <<>>
NoResult == [changed |-> FALSE, failed |-> FALSE, fragment_path |-> NoPath,
             err_at |-> "", errno |-> ""]
NoPrev == [valid |-> FALSE, check_mode |-> FALSE, changed |-> FALSE, failed |-> FALSE]
NoArgs == [state |-> "present", name |-> "t1", role_name |-> "c1",
           fragment |-> <<"X">>, mode |-> "enforce", check_mode |-> FALSE]

\* The action plugin did not run: the module was invoked as such.
NoTask == [env |-> [in_files |-> FALSE, in_templates |-> FALSE, readable |-> FALSE,
                    templatable |-> FALSE, content |-> <<>>],
           orig |-> [name |-> "t1"], args |-> [name |-> "t1"],
           module_args |-> [name |-> "t1"], check_mode |-> FALSE,
           source_file |-> "", file_content |-> <<>>,
           failed |-> FALSE, msg |-> "", executed |-> FALSE, engine |-> FALSE]

\* The arguments of one invocation.  state=absent ignores fragment and mode
\* (they are still required by the argument spec), so one value stands for all.
PresentArgs(names, roles, contents, modes, checks) ==
    [state : {"present"}, name : names, role_name : roles,
     fragment : contents, mode : modes, check_mode : checks]
AbsentArgs(names, roles, checks) ==
    [state : {"absent"}, name : names, role_name : roles,
     fragment : {<<"X">>}, mode : {"enforce"}, check_mode : checks]

\* The invocations of the single caller: every mode, content and check mode
\* for contributor c1; contributor c2 is the other contributor of the target.
SeqArgs == PresentArgs(Targets, {"c1"}, Contents, Modes, BOOLEAN)
             \cup PresentArgs(Targets, {"c2"}, {<<"X">>}, {"enforce"}, BOOLEAN)
             \cup AbsentArgs(Targets, Roles, BOOLEAN)

VARIABLES
    dirs,        \* the staging directories that exist
    frags,       \* frags[<<t, c>>]: the file at baseDir/t/c.fragment
    tmps,        \* the temporary files that exist: <<t, role, n>>
    faulty,      \* whether the filesystem may fail a call (I/O, permission)
    pc,          \* pc[p]: the call invocation p is about to make
    args,        \* args[p]: module.params and module.check_mode
    temp_path,   \* temp_path[p]: the name mkstemp returned
    written,     \* written[p]: what p wrote through temp_fd so far
    result,      \* result[p]: what exit_json / fail_json reports
    ignored,     \* ignored[p]: the errors the invocation swallowed
    ran,         \* ran[p]: p has started an invocation
    pre,         \* the filesystem when the caller's invocation started
    stamp,       \* stamp[p]: what time.time() returned to p in
                 \* detect_role_name, in ticks; 0 when it was not called
    task,        \* the action plugin's run: self._task.args, what it found
                 \* and read, its result, and the role's files it looks in
    prev,        \* the outcome of the caller's previous invocation, when it
                 \* had the same arguments (check_mode apart)
    lastRename   \* the invocation whose os.rename happened last

fsvars == <<dirs, frags, tmps>>
vars == <<dirs, frags, tmps, faulty, pc, args, temp_path, written, result,
          ignored, ran, pre, stamp, task, prev, lastRename>>

FS == [dirs |-> dirs, frags |-> frags, tmps |-> tmps]
EmptyFS == [dirs |-> {}, frags |-> [q \in Pairs |-> NoFile], tmps |-> {}]

\* A call the filesystem may fail: the outcomes the environment can choose.
Faults == IF faulty THEN BOOLEAN ELSE {FALSE}

\* Entries of a staging directory: fragment files and temporary files.
Entries(t) ==
    {q \in DOMAIN frags : q[1] = t /\ frags[q].exists} \cup {n \in tmps : n[1] = t}

TypeOK ==
    /\ dirs \subseteq Targets \cup OtherTargets
    /\ \A q \in DOMAIN frags : frags[q].exists => q[1] \in dirs
    /\ \A n \in tmps : n[1] \in dirs

\* ------------------------------------------------------------------- Init
Init ==
    /\ dirs = {}
    /\ frags = [q \in Pairs |-> NoFile]
    /\ tmps = {}
    /\ faulty = TRUE
    /\ pc = [p \in Procs |-> "idle"]
    /\ args = [p \in Procs |-> NoArgs]
    /\ temp_path = [p \in Procs |-> <<>>]
    /\ written = [p \in Procs |-> <<>>]
    /\ result = [p \in Procs |-> NoResult]
    /\ ignored = [p \in Procs |-> {}]
    /\ ran = [p \in Procs |-> FALSE]
    /\ stamp = [p \in Procs |-> 0]
    /\ task = NoTask
    /\ pre = EmptyFS
    /\ prev = NoPrev
    /\ lastRename = "none"

\* ---------------------------------------------------------------- actions
\* run_module: raise -> except Exception -> module.fail_json(**result)
Fail(p, at, errno) ==
    /\ result' = [result EXCEPT ![p].failed = TRUE, ![p].err_at = at,
                                ![p].errno = errno]
    /\ pc' = [pc EXCEPT ![p] = "done"]

\* The directory is ensured whether or not the module runs in check mode.
FirstStepAlwaysEnsure(a) == "ensure"

\* "In check mode, we don't create directories": the first filesystem call.
FirstStep(a) == IF a.check_mode THEN "check" ELSE "ensure"

SameCall(a, b) == [a EXCEPT !.check_mode = FALSE] = [b EXCEPT !.check_mode = FALSE]

\* The caller invokes the module: AnsibleModule(...), result = dict(...).
Start(p, a) ==
    /\ pc[p] = "idle"
    /\ pc' = [pc EXCEPT ![p] = FirstStep(a)]
    /\ args' = [args EXCEPT ![p] = a]
    /\ result' = [result EXCEPT ![p] = NoResult]
    /\ ignored' = [ignored EXCEPT ![p] = {}]
    /\ ran' = [ran EXCEPT ![p] = TRUE]
    /\ pre' = FS
    /\ prev' = IF ran[p] /\ SameCall(a, args[p])
               THEN [valid |-> TRUE, check_mode |-> args[p].check_mode,
                     changed |-> result[p].changed, failed |-> result[p].failed]
               ELSE NoPrev
    /\ UNCHANGED <<fsvars, faulty, temp_path, written, stamp, task, lastRename>>

\* After ensure_staging_directory: the branch on state.
AfterEnsure(a) == IF a.state = "present" THEN "exists" ELSE "rm_exists"

\* ensure_staging_directory: os.path.exists(staging_dir)
EnsureExists(p) ==
    /\ pc[p] = "ensure"
    /\ pc' = [pc EXCEPT ![p] = IF args[p].name \in dirs
                                THEN AfterEnsure(args[p]) ELSE "makedirs"]
    /\ UNCHANGED <<fsvars, faulty, args, temp_path, written, result, ignored,
                   ran, pre, stamp, task, prev, lastRename>>

\* ensure_staging_directory: os.makedirs(staging_dir, mode=0o755), which
\* raises FileExistsError when the directory exists by now.
Makedirs(p) ==
    /\ pc[p] = "makedirs"
    /\ \E fault \in Faults :
         IF args[p].name \in dirs
         THEN Fail(p, "makedirs", "EEXIST") /\ UNCHANGED dirs
         ELSE IF fault
         THEN Fail(p, "makedirs", "EIO") /\ UNCHANGED dirs
         ELSE /\ dirs' = dirs \cup {args[p].name}
              /\ pc' = [pc EXCEPT ![p] = AfterEnsure(args[p])]
              /\ UNCHANGED result
    /\ UNCHANGED <<frags, tmps, faulty, args, temp_path, written, ignored,
                   ran, pre, stamp, task, prev, lastRename>>

\* What the frame of an invocation's step leaves alone.
Frame == <<faulty, args, ran, pre, stamp, task, prev>>

\* fragment_exists_and_unchanged: os.path.exists(fragment_path)
FragmentExists(p) ==
    /\ pc[p] = "exists"
    /\ pc' = [pc EXCEPT ![p] = IF frags[pair(args[p])].exists
                                THEN "read" ELSE "mkstemp"]
    /\ UNCHANGED <<fsvars, temp_path, written, result, ignored, lastRename, Frame>>

\* fragment_exists_and_unchanged: the comparison of what was read.
Unchanged(existing_content, a) ==
    existing_content = content_with_mode(a.mode, a.fragment)

\* fragment_exists_and_unchanged: open(fragment_path).read() and the
\* comparison; "except IOError: return False" (the file is gone by now, or
\* the read fails).  run_module then takes the "already exists and is
\* unchanged" branch or goes on to write_fragment.
ReadFragment(p) ==
    /\ pc[p] = "read"
    /\ \E fault \in Faults :
         LET a == args[p]
             f == frags[pair(a)]
         IN IF ~f.exists \/ fault
            THEN /\ ignored' = [ignored EXCEPT ![p] = @ \cup {"read"}]
                 /\ pc' = [pc EXCEPT ![p] = "mkstemp"]
                 /\ UNCHANGED result
            ELSE IF Unchanged(f.content, a)
            THEN /\ result' = [result EXCEPT ![p].fragment_path = fragment_path(a)]
                 /\ pc' = [pc EXCEPT ![p] = "done"]
                 /\ UNCHANGED ignored
            ELSE /\ pc' = [pc EXCEPT ![p] = "mkstemp"]
                 /\ UNCHANGED <<result, ignored>>
    /\ UNCHANGED <<fsvars, temp_path, written, lastRename, Frame>>

\* The names tempfile.mkstemp(dir=staging_dir, prefix=f".{role_name}_",
\* suffix=".tmp") can still create: it opens with O_EXCL, so never an
\* existing one.  Which of the free names the random suffix hits makes no
\* difference to the module, so the first one stands for all.
FreeNames(a) ==
    LET free == {i \in 1..MaxTmp : <<a.name, a.role_name, i>> \notin tmps}
    IN IF free = {} \/ Cardinality({n \in tmps : n[1] = a.name}) >= MaxTmp
       THEN {}
       ELSE {<<a.name, a.role_name, CHOOSE i \in free : \A j \in free : i <= j>>}

\* The temporary file is moved onto the fragment before it is written.
AfterMkstempRename == "rename"

\* write_fragment: the temporary file is written first, then moved.
AfterMkstemp == "write"

\* write_fragment: tempfile.mkstemp(...), before the try: an error here
\* reaches run_module with nothing to clean up.
Mkstemp(p) ==
    /\ pc[p] = "mkstemp"
    /\ \E fault \in Faults :
         LET a == args[p]
         IN IF a.name \notin dirs
            THEN Fail(p, "mkstemp", "ENOENT") /\ UNCHANGED <<tmps, temp_path>>
            ELSE IF fault \/ FreeNames(a) = {}
            THEN Fail(p, "mkstemp", IF fault THEN "EIO" ELSE "EEXIST")
                 /\ UNCHANGED <<tmps, temp_path>>
            ELSE \E n \in FreeNames(a) :
                   /\ tmps' = tmps \cup {n}
                   /\ temp_path' = [temp_path EXCEPT ![p] = n]
                   /\ pc' = [pc EXCEPT ![p] = AfterMkstemp]
                   /\ UNCHANGED result
    /\ UNCHANGED <<dirs, frags, written, ignored, lastRename, Frame>>

\* write_fragment: what the with block leaves in the temporary file when it
\* ends normally.
WrittenPayload(a) == content_with_mode(a.mode, a.fragment)

\* write_fragment: with os.fdopen(temp_fd, 'w') as temp_file:
\* temp_file.write(content_with_mode).  A failing write leaves any proper
\* prefix of the payload in the temporary file.
WriteTemp(p) ==
    /\ pc[p] = "write"
    /\ \E fault \in Faults :
         LET payload == WrittenPayload(args[p])
         IN IF fault
            THEN \E k \in 0..(Len(payload) - 1) :
                   /\ written' = [written EXCEPT ![p] = SubSeq(payload, 1, k)]
                   /\ result' = [result EXCEPT ![p].err_at = "write",
                                               ![p].errno = "EIO"]
                   /\ pc' = [pc EXCEPT ![p] = "cleanup"]
            ELSE /\ written' = [written EXCEPT ![p] = payload]
                 /\ pc' = [pc EXCEPT ![p] = "rename"]
                 /\ UNCHANGED result
    /\ UNCHANGED <<fsvars, temp_path, ignored, lastRename, Frame>>

\* write_fragment: os.rename(temp_path, fragment_path): the temporary file,
\* with what was written to it and the permission bits mkstemp gave it,
\* replaces the fragment in one step.
Rename(p) ==
    /\ pc[p] = "rename"
    /\ \E fault \in Faults :
         IF fault \/ temp_path[p] \notin tmps
         THEN /\ result' = [result EXCEPT ![p].err_at = "rename",
                               ![p].errno = IF fault THEN "EIO" ELSE "ENOENT"]
              /\ pc' = [pc EXCEPT ![p] = "cleanup"]
              /\ UNCHANGED <<frags, tmps, lastRename>>
         ELSE /\ frags' = [frags EXCEPT ![pair(args[p])] = File(written[p], TempPerm)]
              /\ tmps' = tmps \ {temp_path[p]}
              /\ lastRename' = p
              /\ pc' = [pc EXCEPT ![p] = "chmod"]
              /\ UNCHANGED result
    /\ UNCHANGED <<dirs, temp_path, written, ignored, Frame>>

\* write_fragment: os.chmod(fragment_path, 0o644); return fragment_path.
\* run_module: result['fragment_path'] = fragment_path; result['changed'] = True
Chmod(p) ==
    /\ pc[p] = "chmod"
    /\ \E fault \in Faults :
         LET a == args[p]
         IN IF fault \/ ~frags[pair(a)].exists
            THEN /\ result' = [result EXCEPT ![p].err_at = "chmod",
                                  ![p].errno = IF fault THEN "EIO" ELSE "ENOENT"]
                 /\ pc' = [pc EXCEPT ![p] = "cleanup"]
                 /\ UNCHANGED <<frags, written>>
            ELSE /\ frags' = [frags EXCEPT ![pair(a)].perm = FragmentPerm]
                 /\ result' = [result EXCEPT ![p].fragment_path = fragment_path(a),
                                             ![p].changed = TRUE]
                 /\ written' = [written EXCEPT ![p] = <<>>]
                 /\ pc' = [pc EXCEPT ![p] = "done"]
    /\ UNCHANGED <<dirs, tmps, temp_path, ignored, lastRename, Frame>>

\* The except branch re-raises without removing the temporary file.
UnlinkedNot(n) == tmps

\* os.unlink(temp_path): the temporary files left when it succeeds.
Unlinked(n) == tmps \ {n}

\* write_fragment: except Exception: try: os.unlink(temp_path) except
\* OSError: pass; raise.  The unlink fails when the temporary file was
\* renamed already, or when the filesystem fails it: both are ignored.
Cleanup(p) ==
    /\ pc[p] = "cleanup"
    /\ \E fault \in Faults :
         IF fault \/ temp_path[p] \notin tmps
         THEN /\ ignored' = [ignored EXCEPT ![p] = @ \cup {"unlink_temp"}]
              /\ UNCHANGED tmps
         ELSE /\ tmps' = Unlinked(temp_path[p])
              /\ UNCHANGED ignored
    /\ written' = [written EXCEPT ![p] = <<>>]
    /\ result' = [result EXCEPT ![p].failed = TRUE]
    /\ pc' = [pc EXCEPT ![p] = "done"]
    /\ UNCHANGED <<dirs, frags, temp_path, lastRename, Frame>>

\* remove_fragment: os.path.exists(fragment_path); False when it does not:
\* result['message'] = "... was not found".
RemoveExists(p) ==
    /\ pc[p] = "rm_exists"
    /\ pc' = [pc EXCEPT ![p] = IF frags[pair(args[p])].exists
                                THEN "unlink" ELSE "done"]
    /\ UNCHANGED <<fsvars, temp_path, written, result, ignored, lastRename, Frame>>

\* remove_fragment: os.unlink(fragment_path), not in any try.
Unlink(p) ==
    /\ pc[p] = "unlink"
    /\ \E fault \in Faults :
         LET a == args[p]
         IN IF fault \/ ~frags[pair(a)].exists
            THEN Fail(p, "unlink", IF fault THEN "EIO" ELSE "ENOENT")
                 /\ UNCHANGED frags
            ELSE /\ frags' = [frags EXCEPT ![pair(a)] = NoFile]
                 /\ pc' = [pc EXCEPT ![p] = "rmdir"]
                 /\ UNCHANGED result
    /\ UNCHANGED <<dirs, tmps, temp_path, written, ignored, lastRename, Frame>>

\* The directory is removed with whatever it still holds.
RmdirSucceedsNonEmpty(t, fault) == ~fault /\ t \in dirs

\* os.rmdir(staging_dir) succeeds on an existing, empty directory.
RmdirSucceeds(t, fault) == ~fault /\ t \in dirs /\ Entries(t) = {}

\* remove_fragment: try: os.rmdir(staging_dir) except OSError: pass;
\* return True.  run_module: result['changed'] = True.
Rmdir(p) ==
    /\ pc[p] = "rmdir"
    /\ \E fault \in Faults :
         LET t == args[p].name
         IN IF RmdirSucceeds(t, fault)
            THEN /\ dirs' = dirs \ {t}
                 /\ UNCHANGED ignored
            ELSE /\ ignored' = [ignored EXCEPT ![p] = @ \cup
                        {IF fault \/ t \notin dirs THEN "rmdir" ELSE "rmdir_notempty"}]
                 /\ UNCHANGED dirs
    /\ result' = [result EXCEPT ![p].changed = TRUE]
    /\ pc' = [pc EXCEPT ![p] = "done"]
    /\ UNCHANGED <<frags, tmps, temp_path, written, lastRename, Frame>>

\* run_module in check mode, state=present: changed without looking at the
\* filesystem ("would be created").
CheckPresentChanged(a) == TRUE

\* run_module in check mode: staging_dir is only computed; present reports
\* the path the fragment would have, absent asks os.path.exists(fragment_path).
CheckMode(p) ==
    /\ pc[p] = "check"
    /\ LET a == args[p]
       IN result' = IF a.state = "present"
                    THEN [result EXCEPT ![p].fragment_path = fragment_path(a),
                                        ![p].changed = CheckPresentChanged(a)]
                    ELSE [result EXCEPT ![p].changed = frags[pair(a)].exists]
    /\ pc' = [pc EXCEPT ![p] = "done"]
    /\ UNCHANGED <<fsvars, temp_path, written, ignored, lastRename, Frame>>

\* module.exit_json / module.fail_json: the process ends and the caller has
\* the result; changed and failed are what a next invocation is compared to.
Return(p) ==
    /\ pc[p] = "done"
    /\ pc' = [pc EXCEPT ![p] = "idle"]
    /\ result' = [result EXCEPT ![p] = [NoResult EXCEPT !.changed = result[p].changed,
                                                         !.failed = result[p].failed]]
    /\ ignored' = [ignored EXCEPT ![p] = {}]
    /\ temp_path' = [temp_path EXCEPT ![p] = <<>>]
    /\ pre' = EmptyFS
    /\ prev' = NoPrev
    /\ UNCHANGED <<fsvars, faulty, args, written, ran, stamp, task, lastRename>>

\* The steps of an invocation that is not in check mode.
RealStep(p) ==
    \/ EnsureExists(p)
    \/ Makedirs(p)
    \/ FragmentExists(p)
    \/ ReadFragment(p)
    \/ Mkstemp(p)
    \/ WriteTemp(p)
    \/ Rename(p)
    \/ Chmod(p)
    \/ Cleanup(p)
    \/ RemoveExists(p)
    \/ Unlink(p)
    \/ Rmdir(p)

Next ==
    \/ \E a \in SeqArgs : Start(Caller, a)
    \/ CheckMode(Caller)
    \/ Return(Caller)
    \/ RealStep(Caller)

Spec == Init /\ [][Next]_vars


\* ------------------------------------------------- concurrent invocations
\* Two invocations started together.  On a filesystem that does not fail
\* (InitConc) whatever fails, fails because of the other invocation.
ConcArgs == PresentArgs(Targets, Roles, Contents, {"enforce", "complain"}, {FALSE})
              \cup AbsentArgs(Targets, Roles, {FALSE})

\* A fragment written by an earlier, completed present.
OldFile == File(content_with_mode("enforce", <<"X">>), FragmentPerm)

\* The staging trees the invocations start on: no directory, or the
\* directory with any of the fragments in it.
ConcInitFS ==
    {[dirs |-> {}, frags |-> [q \in Pairs |-> NoFile], tmps |-> {}]} \cup
    {[dirs |-> Targets, frags |-> f, tmps |-> {}] : f \in [Pairs -> {NoFile, OldFile}]}

ConcStart ==
    /\ \E fs \in ConcInitFS :
         /\ dirs = fs.dirs
         /\ frags = fs.frags
         /\ tmps = fs.tmps
         /\ pre = fs
    /\ args \in [Procs -> ConcArgs]
    /\ pc = [p \in Procs |-> FirstStep(args[p])]
    /\ temp_path = [p \in Procs |-> <<>>]
    /\ written = [p \in Procs |-> <<>>]
    /\ result = [p \in Procs |-> NoResult]
    /\ ignored = [p \in Procs |-> {}]
    /\ ran = [p \in Procs |-> TRUE]
    /\ stamp = [p \in Procs |-> 0]
    /\ task = NoTask
    /\ prev = NoPrev
    /\ lastRename = "none"

InitConc == ConcStart /\ faulty = FALSE

\* The same invocations on a filesystem that may fail any call.
InitConcFaulty == ConcStart /\ faulty = TRUE

NextConc == \E p \in Procs : RealStep(p)

SpecConc == InitConc /\ [][NextConc]_vars

SpecConcFaulty == InitConcFaulty /\ [][NextConc]_vars


\* ------------------------------------------- one invocation, other targets
\* The staging trees one invocation may find: under its own target and
\* under the other one, no directory, an empty directory, or a directory
\* with fragments of earlier presents.
FrameInitFS ==
    {fs \in [dirs : SUBSET (Targets \cup OtherTargets),
             frags : [AllPairs -> {NoFile, OldFile}],
             tmps : {{}}] :
        \A q \in AllPairs : fs.frags[q].exists => q[1] \in fs.dirs}

\* One invocation of the caller, of any kind, on a filesystem that may fail.
InitFrame ==
    /\ \E fs \in FrameInitFS :
         /\ dirs = fs.dirs
         /\ frags = fs.frags
         /\ tmps = fs.tmps
         /\ pre = fs
    /\ faulty = TRUE
    /\ \E a \in SeqArgs :
         /\ args = [p \in Procs |-> IF p = Caller THEN a ELSE NoArgs]
         /\ pc = [p \in Procs |-> IF p = Caller THEN FirstStep(a) ELSE "idle"]
    /\ temp_path = [p \in Procs |-> <<>>]
    /\ written = [p \in Procs |-> <<>>]
    /\ result = [p \in Procs |-> NoResult]
    /\ ignored = [p \in Procs |-> {}]
    /\ ran = [p \in Procs |-> p = Caller]
    /\ stamp = [p \in Procs |-> 0]
    /\ task = NoTask
    /\ prev = NoPrev
    /\ lastRename = "none"

NextFrame == CheckMode(Caller) \/ RealStep(Caller)

SpecFrame == InitFrame /\ [][NextFrame]_vars


\* ------------------------------------------- invocations without role_name
\* The clock values time.time() may return, in ticks; the clock does not
\* go back.
MaxTick == 3
\* Ticks in a second: time.time() is finer than the second int() keeps.
TicksPerSecond == 2

\* module.params['role_name'] when the caller gave none: "not role_name".
NotSupplied == ""

\* detect_role_name: f"role_{int(time.time())}", t being what time.time()
\* returned.
detect_role_name(t) == "role_" \o ToString(t \div TicksPerSecond)

\* The fragment files such invocations may name.
DetectPairs == Targets \X ({"c1"} \cup {detect_role_name(t) : t \in 1..MaxTick})

DetectArgs == PresentArgs(Targets, {NotSupplied, "c1"}, Contents, {"enforce"}, {FALSE})
                \cup AbsentArgs(Targets, {NotSupplied}, {FALSE})

\* run_module: if not role_name: role_name = detect_role_name()
AfterParams(a) == IF a.role_name = NotSupplied THEN "detect" ELSE FirstStep(a)

\* Two invocations started together on an empty base directory and a
\* filesystem that does not fail.
InitDetect ==
    /\ dirs = {}
    /\ frags = [q \in DetectPairs |-> NoFile]
    /\ tmps = {}
    /\ pre = [dirs |-> {}, frags |-> [q \in DetectPairs |-> NoFile], tmps |-> {}]
    /\ faulty = FALSE
    /\ args \in [Procs -> DetectArgs]
    /\ pc = [p \in Procs |-> AfterParams(args[p])]
    /\ temp_path = [p \in Procs |-> <<>>]
    /\ written = [p \in Procs |-> <<>>]
    /\ result = [p \in Procs |-> NoResult]
    /\ ignored = [p \in Procs |-> {}]
    /\ ran = [p \in Procs |-> TRUE]
    /\ stamp = [p \in Procs |-> 0]
    /\ task = NoTask
    /\ prev = NoPrev
    /\ lastRename = "none"

\* run_module: role_name = detect_role_name(), time.time() returning t.
DetectRoleName(p) ==
    /\ pc[p] = "detect"
    /\ \E t \in 1..MaxTick :
         /\ \A q \in Procs : stamp[q] <= t
         /\ stamp' = [stamp EXCEPT ![p] = t]
         /\ args' = [args EXCEPT ![p].role_name = detect_role_name(t)]
    /\ pc' = [pc EXCEPT ![p] = FirstStep(args[p])]
    /\ UNCHANGED <<fsvars, faulty, temp_path, written, result, ignored, ran,
                   pre, task, prev, lastRename>>

NextDetect == \E p \in Procs : DetectRoleName(p) \/ RealStep(p)

SpecDetect == InitDetect /\ [][NextDetect]_vars


\* ------------------------------------------------------- the action plugin
\* Text is a sequence of chunks, "" is <<>>; self._task.args is a function
\* whose domain is the keys the task gave.
SrcPath == <<"profile.j2">>

\* How a task may give one of the two content inputs.
Given == {"omitted", "empty", "nonempty"}

\* The task's arguments: name, role_name and state, and fragment_src and
\* fragment as given.
TaskArgs(state, src, frag) ==
    LET keys == {"name", "role_name", "state"}
                  \cup (IF src = "omitted" THEN {} ELSE {"fragment_src"})
                  \cup (IF frag = "omitted" THEN {} ELSE {"fragment"})
    IN [k \in keys |->
          CASE k = "name" -> "t1"
            [] k = "role_name" -> "c1"
            [] k = "state" -> state
            [] k = "fragment_src" -> IF src = "empty" THEN <<>> ELSE SrcPath
            [] k = "fragment" -> IF frag = "empty" THEN <<>> ELSE <<"X">>]

\* "if x:" for x = self._task.args.get(k, None)
Truthy(d, k) == k \in DOMAIN d /\ d[k] # <<>>

\* What the source file may hold: plain text, or a Jinja2 expression.
SourceContents == {<<"X">>, <<"{{ v }}", "X">>}

\* self._templar.template(file_content, ...): every expression replaced by
\* its value.
Template(file_content) ==
    [i \in DOMAIN file_content |->
        IF file_content[i] = "{{ v }}" THEN "V" ELSE file_content[i]]

\* The module is handed the task's arguments with fragment_src still in them.
HandOverWithSrc(a, templated_content) ==
    [k \in DOMAIN a \cup {"fragment"} |->
        IF k = "fragment" THEN templated_content ELSE a[k]]

\* self._task.args['fragment'] = templated_content;
\* del self._task.args['fragment_src']
HandOver(a, templated_content) ==
    [k \in (DOMAIN a \cup {"fragment"}) \ {"fragment_src"} |->
        IF k = "fragment" THEN templated_content ELSE a[k]]

\* AnsibleModule(mutually_exclusive=[['fragment_src', 'fragment']],
\* required_one_of=[['fragment_src', 'fragment']]): of the two parameters
\* exactly one was passed to the module.
ArgumentsValid(a) == Cardinality(DOMAIN a \cap {"fragment_src", "fragment"}) = 1

\* module.params and module.check_mode: mode gets its default, a fragment
\* that was not passed is None, which the f-strings print as "None".
Params(a, check) ==
    [state |-> a.state, name |-> a.name, role_name |-> a.role_name,
     fragment |-> IF "fragment" \in DOMAIN a THEN a.fragment ELSE <<"None">>,
     mode |-> "enforce", check_mode |-> check]

\* The staging trees the task may find.
ActionInitFS ==
    {EmptyFS, [EmptyFS EXCEPT !.dirs = Targets, !.frags[<<"t1", "c1">>] = OldFile]}

\* One task: what the role's files/ and templates/ hold, and the arguments.
InitAction ==
    /\ \E fs \in ActionInitFS :
         /\ dirs = fs.dirs
         /\ frags = fs.frags
         /\ tmps = fs.tmps
         /\ pre = fs
    /\ faulty = TRUE
    /\ \E e \in [in_files : BOOLEAN, in_templates : BOOLEAN, readable : BOOLEAN,
                 templatable : BOOLEAN, content : SourceContents],
          state \in States, src \in Given, frag \in Given, check \in BOOLEAN :
         task = [NoTask EXCEPT !.env = e,
                               !.orig = TaskArgs(state, src, frag),
                               !.args = TaskArgs(state, src, frag),
                               !.check_mode = check]
    /\ args = [p \in Procs |-> NoArgs]
    /\ pc = [p \in Procs |-> IF p = Caller THEN "action" ELSE "idle"]
    /\ temp_path = [p \in Procs |-> <<>>]
    /\ written = [p \in Procs |-> <<>>]
    /\ result = [p \in Procs |-> NoResult]
    /\ ignored = [p \in Procs |-> {}]
    /\ ran = [p \in Procs |-> p = Caller]
    /\ stamp = [p \in Procs |-> 0]
    /\ prev = NoPrev
    /\ lastRename = "none"

\* What a step of the action plugin leaves alone.
ActionFrame == <<fsvars, faulty, args, temp_path, written, result, ignored, ran,
                 pre, stamp, prev, lastRename>>

\* result['failed'] = True; result['msg'] = ...; return result
ActionFail(p, msg) ==
    /\ task' = [task EXCEPT !.failed = TRUE, !.msg = msg]
    /\ pc' = [pc EXCEPT ![p] = "done"]

\* ActionModule.run: the two .get() and the tests on them.
ActionRun(p) ==
    /\ pc[p] = "action"
    /\ IF Truthy(task.args, "fragment_src")
       THEN IF Truthy(task.args, "fragment")
            THEN ActionFail(p, "mutually exclusive")
            ELSE pc' = [pc EXCEPT ![p] = "find_files"] /\ UNCHANGED task
       ELSE pc' = [pc EXCEPT ![p] = "execute"] /\ UNCHANGED task
    /\ UNCHANGED ActionFrame

\* self._find_needle('files', fragment_src)
FindFiles(p) ==
    /\ pc[p] = "find_files"
    /\ IF task.env.in_files
       THEN /\ task' = [task EXCEPT !.source_file = "files"]
            /\ pc' = [pc EXCEPT ![p] = "open"]
       ELSE pc' = [pc EXCEPT ![p] = "find_templates"] /\ UNCHANGED task
    /\ UNCHANGED ActionFrame

\* except AnsibleFileNotFound: self._find_needle('templates', fragment_src)
FindTemplates(p) ==
    /\ pc[p] = "find_templates"
    /\ IF task.env.in_templates
       THEN /\ task' = [task EXCEPT !.source_file = "templates"]
            /\ pc' = [pc EXCEPT ![p] = "open"]
       ELSE ActionFail(p, "could not find")
    /\ UNCHANGED ActionFrame

\* with open(source_file, 'r') as f: file_content = to_text(f.read())
OpenSource(p) ==
    /\ pc[p] = "open"
    /\ IF task.env.readable
       THEN /\ task' = [task EXCEPT !.file_content = task.env.content]
            /\ pc' = [pc EXCEPT ![p] = "template"]
       ELSE ActionFail(p, "failed to read")
    /\ UNCHANGED ActionFrame

\* templated_content = self._templar.template(...), and the replacement of
\* fragment_src by fragment in the task's arguments.
TemplateSource(p) ==
    /\ pc[p] = "template"
    /\ IF task.env.templatable
       THEN /\ task' = [task EXCEPT
                          !.args = HandOver(task.args, Template(task.file_content))]
            /\ pc' = [pc EXCEPT ![p] = "execute"]
       ELSE ActionFail(p, "failed to template")
    /\ UNCHANGED ActionFrame

\* self._execute_module(module_args=self._task.args): the module starts,
\* AnsibleModule(...) checks the arguments and ends with fail_json, or
\* run_module goes on with module.params.
ExecuteModule(p) ==
    /\ pc[p] = "execute"
    /\ IF ArgumentsValid(task.args)
       THEN /\ task' = [task EXCEPT !.executed = TRUE, !.module_args = task.args,
                                    !.engine = TRUE]
            /\ args' = [args EXCEPT ![p] = Params(task.args, task.check_mode)]
            /\ pc' = [pc EXCEPT ![p] = FirstStep(Params(task.args, task.check_mode))]
            /\ UNCHANGED result
       ELSE /\ task' = [task EXCEPT !.executed = TRUE, !.module_args = task.args,
                                    !.failed = TRUE, !.msg = "module arguments"]
            /\ result' = [result EXCEPT ![p].failed = TRUE]
            /\ pc' = [pc EXCEPT ![p] = "done"]
            /\ UNCHANGED args
    /\ UNCHANGED <<fsvars, faulty, temp_path, written, ignored, ran, pre, stamp,
                   prev, lastRename>>

NextAction ==
    \/ ActionRun(Caller)
    \/ FindFiles(Caller)
    \/ FindTemplates(Caller)
    \/ OpenSource(Caller)
    \/ TemplateSource(Caller)
    \/ ExecuteModule(Caller)
    \/ CheckMode(Caller)
    \/ RealStep(Caller)

SpecAction == InitAction /\ [][NextAction]_vars


\* ------------------------------------------------------------- the claims
Call == args[Caller]
Res == result[Caller]
Done(p) == pc[p] = "done"
\* "# Mode: " + m + "\n" + x
StoredForm(a) == <<"# Mode: ", a.mode, "\n">> \o a.fragment
\* A non-dry-run invocation of the caller has just ended.
RealDone(state) == Done(Caller) /\ Call.state = state /\ ~Call.check_mode
\* The other fragment files of the target that existed when the call started.
OtherFragments == {q \in Pairs : q[1] = Call.name /\ q # pair(Call) /\ pre.frags[q].exists}

\* C1: a non-dry-run present that returns successfully leaves at
\* baseDir/t/c.fragment a file whose content is "# Mode: m\n" + x with
\* permission bits 0644, reports exactly that path, and on an empty base
\* directory reports changed=true.
C1_PresentLeavesStoredForm ==
    (RealDone("present") /\ ~Res.failed) =>
        /\ frags[pair(Call)] = File(StoredForm(Call), FragmentPerm)
        /\ Res.fragment_path = <<BaseDir, Call.name, Call.role_name, ".fragment">>
        /\ (pre = EmptyFS => Res.changed)

\* C2: two successive non-dry-run presents with identical arguments: the
\* first reports changed=true when the fragment was absent or different, the
\* second reports changed=false and mutates nothing, so the file is the same
\* after both.
C2_PresentIdempotent ==
    /\ (RealDone("present") /\ ~Res.failed
          /\ pre.frags[pair(Call)] # File(StoredForm(Call), pre.frags[pair(Call)].perm))
         => Res.changed
    /\ (RealDone("present") /\ ~Res.failed
          /\ prev.valid /\ ~prev.check_mode /\ ~prev.failed)
         => (~Res.changed /\ FS = pre)

\* C3: a non-dry-run present reports changed=false if and only if a file
\* with exactly the new stored_form existed already; when it reports
\* changed=true the file equals the new stored_form and its first line names
\* the new mode.
C3_ChangedIffDifferent ==
    (RealDone("present") /\ ~Res.failed) =>
        /\ ~Res.changed <=> (/\ pre.frags[pair(Call)].exists
                             /\ pre.frags[pair(Call)].content = StoredForm(Call))
        /\ Res.changed => /\ frags[pair(Call)].exists
                          /\ frags[pair(Call)].content = StoredForm(Call)
                          /\ SubSeq(frags[pair(Call)].content, 1, 3)
                                = <<"# Mode: ", Call.mode, "\n">>

\* C4: an invocation in check mode, present or absent, leaves the filesystem
\* exactly as it was when it started: directories, fragments and temporary
\* files.
C4_DryRunNeverMutates ==
    (pc[Caller] # "idle" /\ Call.check_mode) => FS = pre

C4_Witness ==
    /\ Done(Caller) /\ Call.check_mode /\ Call.state = "present"
    /\ Call.name \notin dirs /\ Res.changed

\* C5: an invocation in check mode reports the changed value the same
\* invocation reports without check mode from the same filesystem state.
C5_DryRunReportsRealChanged ==
    (Done(Caller) /\ ~Call.check_mode /\ ~Res.failed
       /\ prev.valid /\ prev.check_mode /\ ~prev.failed)
      => Res.changed = prev.changed

\* C6: a non-dry-run absent for a pair without fragment file reports
\* changed=false and mutates nothing, staging directory included.
C6_AbsentOnMissingIsNoOp ==
    (RealDone("absent") /\ ~pre.frags[pair(Call)].exists)
      => (~Res.changed /\ FS = pre)

\* C7: a non-dry-run absent that removes the last fragment file of a target
\* leaves the staging directory non-existent; one that removes one of two
\* leaves the directory and the other fragment as they were and reports
\* changed=true without failing.
C7_DirectoryCleanup ==
    (RealDone("absent") /\ pre.frags[pair(Call)].exists /\ ~frags[pair(Call)].exists)
      => IF OtherFragments = {}
         THEN Call.name \notin dirs
         ELSE /\ Call.name \in dirs
              /\ \A q \in OtherFragments : frags[q] = pre.frags[q]
              /\ Res.changed /\ ~Res.failed

\* C8: a present whose rename fails leaves the destination fragment as it
\* was before the call, leaves no temporary file of the call in the staging
\* directory, and is reported as failed.
C8_RenameFailureAtomic ==
    (RealDone("present") /\ Res.err_at = "rename") =>
        /\ frags[pair(Call)] = pre.frags[pair(Call)]
        /\ temp_path[Caller] \notin tmps
        /\ Res.failed

\* C8 as amended: a present whose rename fails leaves the destination
\* fragment as it was before the call and is reported as failed; its
\* temporary file is gone unless the unlink that cleans it up failed too.
C8_RenameFailureAtomicAmended ==
    (RealDone("present") /\ Res.err_at = "rename") =>
        /\ frags[pair(Call)] = pre.frags[pair(Call)]
        /\ temp_path[Caller] \in tmps => "unlink_temp" \in ignored[Caller]
        /\ Res.failed

C8_Witness ==
    /\ RealDone("present") /\ Res.err_at = "rename" /\ Res.failed
    /\ pre.frags[pair(Call)].exists
    /\ temp_path[Caller] \notin tmps

\* C9: a present that fails at the write, the rename or the permission
\* step leaves the fragment file as it was (absent if it was absent): a
\* failed present never changes what is visible at fragmentPath.
C9_FailedPresentLeavesFragment ==
    (RealDone("present") /\ Res.failed /\ Res.err_at \in {"write", "rename", "chmod"})
      => frags[pair(Call)] = pre.frags[pair(Call)]

\* Two concurrent non-dry-run presents for the same pair with different
\* content or mode.
RacingPresents ==
    /\ \A p \in Procs : args[p].state = "present" /\ ~args[p].check_mode
    /\ \A p, q \in Procs : pair(args[p]) = pair(args[q])
    /\ \A p, q \in Procs : p # q => StoredForm(args[p]) # StoredForm(args[q])

\* C10: under every interleaving of such presents the fragment file is at
\* every instant absent (only before the first rename), the old complete
\* stored_form, or the complete stored_form of one of the callers; once all
\* have finished it is the stored_form of the caller that renamed last.
C10_NoTornStateLastRenameWins ==
    RacingPresents =>
      LET q == pair(args[Caller])
      IN /\ ~frags[q].exists => (lastRename = "none" /\ ~pre.frags[q].exists)
         /\ frags[q].exists =>
              \/ pre.frags[q].exists /\ frags[q].content = pre.frags[q].content
              \/ \E p \in Procs : frags[q].content = StoredForm(args[p])
         /\ ((\A p \in Procs : Done(p)) /\ lastRename # "none") =>
              /\ frags[q].exists
              /\ frags[q].content = StoredForm(args[lastRename])

C10_Witness ==
    /\ RacingPresents
    /\ \A p \in Procs : Done(p) /\ result[p].changed
    /\ pre.frags[pair(args[Caller])].exists
    /\ frags[pair(args[Caller])].content = StoredForm(args[lastRename])

\* Two concurrent non-dry-run invocations that found no staging directory.
RacingOnMissingDir ==
    /\ \A p \in Procs : ~args[p].check_mode
    /\ \A p, q \in Procs : args[p].name = args[q].name
    /\ args[Caller].name \notin pre.dirs

\* C11: when two non-dry-run invocations for the same target run
\* concurrently while the staging directory does not exist yet, neither
\* fails because the other created the directory first.
C11_EnsureDirIdempotent ==
    RacingOnMissingDir =>
      \A p \in Procs : ~(result[p].failed /\ result[p].err_at = "makedirs")

\* A non-dry-run present of the caller for one contributor next to a
\* non-dry-run absent of the other invocation for another contributor of
\* the same target.
PresentBesideAbsent ==
    /\ args["p1"].state = "present" /\ args["p2"].state = "absent"
    /\ args["p1"].name = args["p2"].name
    /\ args["p1"].role_name # args["p2"].role_name

\* C12: a present for contributor A concurrent with an absent for
\* contributor B of the same target always completes successfully and leaves
\* A's fragment file in place with A's complete stored_form.
C12_PresentIndependentOfCleanup ==
    (PresentBesideAbsent /\ \A p \in Procs : Done(p)) =>
        /\ ~result["p1"].failed
        /\ frags[pair(args["p1"])].exists
        /\ frags[pair(args["p1"])].content = StoredForm(args["p1"])

\* The errors the engine may ignore: the unlink of the temporary file after
\* a failed write, and the rmdir of a staging directory that is not empty.
BestEffort == {"unlink_temp", "rmdir_notempty"}

\* C13: every filesystem failure inside the engine ends the operation as a
\* reported failure, except the two that are ignored by design; a failed
\* read of the existing fragment and an rmdir that fails for another reason
\* than non-emptiness never end in a successful result.
C13_FailuresReported ==
    (Done(Caller) /\ ~Res.failed) => ignored[Caller] \subseteq BestEffort

\* C17: from an empty base directory, after any sequence of completed
\* non-dry-run operations of a single caller, every staging directory that
\* exists holds at least one fragment file.
C17_NoEmptyStagingDir ==
    (pc[Caller] \in {"idle", "done"}) =>
        \A t \in dirs : \E q \in Pairs : q[1] = t /\ frags[q].exists

\* Two concurrent non-dry-run absents for the same pair, whose fragment
\* exists.
RacingAbsents ==
    /\ \A p \in Procs : args[p].state = "absent" /\ ~args[p].check_mode
    /\ \A p, q \in Procs : pair(args[p]) = pair(args[q])
    /\ pre.frags[pair(args[Caller])].exists

\* C19: when two such absents have finished, neither has failed, exactly
\* one reports changed=true, and the fragment file does not exist.
C19_RacingAbsentsBothSucceed ==
    (RacingAbsents /\ \A p \in Procs : Done(p)) =>
        /\ \A p \in Procs : ~result[p].failed
        /\ Cardinality({p \in Procs : result[p].changed}) = 1
        /\ ~frags[pair(args[Caller])].exists

\* What is visible at the path of pair q on filesystem fs: whether a file is
\* there (its directory included) and what it holds.
Visible(fs, q) ==
    IF q[1] \in fs.dirs /\ fs.frags[q].exists
    THEN [exists |-> TRUE, content |-> fs.frags[q].content]
    ELSE [exists |-> FALSE, content |-> <<>>]

\* C18: an operation on a pair (t, c), in check mode or not, successful or
\* failed, leaves the fragment file of every other pair as it was, in
\* existence and content: other contributors of t and every other target.
C18_OtherPairsUntouched ==
    \A q \in DOMAIN frags \ {pair(Call)} : Visible(FS, q) = Visible(pre, q)

C18_Witness ==
    /\ RealDone("absent") /\ Res.changed
    /\ Visible(pre, pair(Call)).exists /\ ~Visible(FS, pair(Call)).exists
    /\ \E q \in DOMAIN frags : q[1] = Call.name /\ q # pair(Call) /\ Visible(FS, q).exists
    /\ \E q \in DOMAIN frags : q[1] # Call.name /\ Visible(FS, q).exists

\* Two invocations without role_name for the same target whose time.time()
\* fell into the same second.
SameSecond(p, q) ==
    /\ p # q /\ args[p].name = args[q].name
    /\ stamp[p] # 0 /\ stamp[q] # 0
    /\ stamp[p] \div TicksPerSecond = stamp[q] \div TicksPerSecond

\* C15: two invocations without role_name for the same target within the
\* same clock second get different identities and so different fragment
\* paths.
C15_SynthesizedIdentityDistinct ==
    \A p, q \in Procs :
        SameSecond(p, q) => /\ args[p].role_name # args[q].role_name
                            /\ fragment_path(args[p]) # fragment_path(args[q])

\* The content inputs the task supplied.
Supplied == DOMAIN task.orig \cap {"fragment_src", "fragment"}

\* C14: whatever the two content inputs are (each omitted, empty or
\* non-empty), when both or neither were supplied the task ends as a
\* configuration error, the engine's logic is never entered and the
\* filesystem is untouched.
C14_ExactlyOneContentSource ==
    (Cardinality(Supplied) # 1) =>
        /\ ~task.engine
        /\ FS = pre
        /\ Done(Caller) => task.failed

\* The task gives its content by reference.
ByReference == Truthy(task.orig, "fragment_src") /\ ~Truthy(task.orig, "fragment")

\* The source can be located in files/ or templates/, read and templated.
Resolvable ==
    /\ task.env.in_files \/ task.env.in_templates
    /\ task.env.readable
    /\ task.env.templatable

\* C16: with content by reference the module is executed only after the
\* source was located, read and templated, and is handed the templated text
\* as fragment and no fragment_src; when the source is not found, not
\* readable or not templatable the result is failed, the module is never
\* executed and no staging file is touched.
C16_ModuleOnlyAfterResolution ==
    ByReference =>
        /\ task.executed =>
             /\ Resolvable
             /\ "fragment" \in DOMAIN task.module_args
             /\ task.module_args.fragment = Template(task.env.content)
             /\ "fragment_src" \notin DOMAIN task.module_args
        /\ (~Resolvable /\ Done(Caller)) =>
             (task.failed /\ ~task.executed /\ FS = pre)

C16_Witness ==
    /\ ByReference /\ task.executed /\ Done(Caller)
    /\ task.source_file = "templates"
    /\ task.env.content = <<"{{ v }}", "X">>
    /\ args[Caller].state = "present" /\ ~args[Caller].check_mode
    /\ result[Caller].changed
    /\ frags[pair(args[Caller])].content = <<"# Mode: ", "enforce", "\n", "V", "X">>

=============================================================================
